---- MODULE Spec2Model ----
(***************************************************************************)
(* The 36-card patience game of main.py: Card, Deck, Board and Game.       *)
(* A game state is a record; every step of the program is an operator that *)
(* maps a state to the set of its successors, and the actions assign one   *)
(* of these successors to the variables.                                   *)
(***************************************************************************)
EXTENDS Integers, Sequences, FiniteSets, TLC

VARIABLES slots, deck, pc, turn, k, simulate, copy, removed_count, free_slots,
          i, empty_slot, max_removed_count, slot_nr, to_check, c, removed,
          moved, before, scans, sims, card1, card2, is_lower

vars == <<slots, deck, pc, turn, k, simulate, copy, removed_count, free_slots,
          i, empty_slot, max_removed_count, slot_nr, to_check, c, removed,
          moved, before, scans, sims, card1, card2, is_lower>>

(* Number of shuffled deck orders the games are started from. *)
NumSeeds == 100

-----------------------------------------------------------------------------
(* Card and Deck *)

Suits == <<"Schelle", "Schilte", "Eichel", "Rose">>

cards_per_suit == 9

min_value == 6

NumSlots == 4

None == 0 - 1

Card(suit, value) == [suit |-> suit, value |-> value]

Cards == {Card(Suits[n], v) : n \in 1..Len(Suits), v \in min_value..(min_value + cards_per_suit - 1)}

DeckSize == Len(Suits) * cards_per_suit

(* A value that is not a Card. *)
NotACard == [suit |-> "", value |-> 0]

(* A comparison that forgets the suits. *)
lower_any_suit(self, other) ==
    IF other \notin Cards THEN FALSE
    ELSE self.value < other.value

(* A comparison the wrong way round. *)
lower_greater(self, other) ==
    IF other \notin Cards THEN FALSE
    ELSE IF self.suit # other.suit THEN FALSE
    ELSE self.value > other.value

(* A comparison with != in place of <. *)
lower_unequal(self, other) ==
    IF other \notin Cards THEN FALSE
    ELSE IF self.suit # other.suit THEN FALSE
    ELSE self.value # other.value

lower(self, other) ==
    IF other \notin Cards THEN FALSE
    ELSE IF self.suit # other.suit THEN FALSE
    ELSE self.value < other.value

(* The deck as Deck.__init__ builds it before the shuffle: suit by suit, *)
(* values ascending.                                                     *)
NewDeck ==
    [n \in 1..DeckSize |->
        Card(Suits[((n - 1) \div cards_per_suit) + 1],
             min_value + ((n - 1) % cards_per_suit))]

(* random.shuffle: a Fisher-Yates pass from the last position down, the *)
(* random source being a linear congruential generator started at seed. *)
NextRand(x) == (x * 75 + 74) % 65537

Swap(cards, a, b) == [cards EXCEPT ![a] = cards[b], ![b] = cards[a]]

RECURSIVE FisherYates(_, _, _)
FisherYates(cards, n, x) ==
    IF n < 2 THEN cards
    ELSE LET r == NextRand(x)
         IN  FisherYates(Swap(cards, n, (r % n) + 1), n - 1, r)

Shuffle(seed) == FisherYates(NewDeck, DeckSize, seed)

-----------------------------------------------------------------------------
(* Board *)

SlotIx == 0..(NumSlots - 1)

EmptyBoard == [n \in SlotIx |-> <<>>]

Top(slot) == slot[Len(slot)]

Pop(slot) == SubSeq(slot, 1, Len(slot) - 1)

(* The pairs in the order (1,0), (2,0), (3,0), (0,1), ...: second index *)
(* first.                                                              *)
PairAtSwapped(p) ==
    LET i1 == p \div (NumSlots - 1)
        r  == p % (NumSlots - 1)
    IN  <<IF r < i1 THEN r ELSE r + 1, i1>>

(* itertools.permutations(range(4), 2), numbered 0..11 in its order. *)
NumPairs == NumSlots * (NumSlots - 1)

PairAt(p) ==
    LET i1 == p \div (NumSlots - 1)
        r  == p % (NumSlots - 1)
    IN  <<i1, IF r < i1 THEN r ELSE r + 1>>

Eligible(b, i1, i2) ==
    /\ Len(b[i1]) # 0
    /\ Len(b[i2]) # 0
    /\ lower(Top(b[i1]), Top(b[i2]))

(* A scan over combinations instead of permutations: i1 < i2 only. *)
FirstEligibleAscending(b) ==
    LET E == {p \in 0..(NumPairs - 1) :
                /\ PairAt(p)[1] < PairAt(p)[2]
                /\ Eligible(b, PairAt(p)[1], PairAt(p)[2])}
    IN  IF E = {} THEN None
        ELSE CHOOSE p \in E : \A q \in E : p <= q

(* The pair at which the for loop of _remove_cards breaks, or None. *)
FirstEligible(b) ==
    LET E == {p \in 0..(NumPairs - 1) : Eligible(b, PairAt(p)[1], PairAt(p)[2])}
    IN  IF E = {} THEN None
        ELSE CHOOSE p \in E : \A q \in E : p <= q

(* A whole removal pass on board b, started with count n: the board it *)
(* leaves and the count it returns.                                   *)
RECURSIVE RemovePass(_, _)
RemovePass(b, n) ==
    LET p == FirstEligible(b)
    IN  IF p = None THEN [slots |-> b, removed_count |-> n]
        ELSE RemovePass([b EXCEPT ![PairAt(p)[1]] = Pop(@)], n + 1)

(* free.append(slot.pop()): the top card of slot src goes onto slot dst. *)
MoveTop(b, src, dst) ==
    [b EXCEPT ![dst] = Append(@, Top(b[src])), ![src] = Pop(b[src])]

RECURSIVE SumLen(_, _)
SumLen(b, n) == IF n = 0 THEN 0 ELSE Len(b[n - 1]) + SumLen(b, n - 1)

(* A count that stops one slot short. *)
cards_count_short(b) == SumLen(b, NumSlots - 1)

cards_count(b) == SumLen(b, NumSlots)

-----------------------------------------------------------------------------
(* The state of a game as one record, and the assignment of a record to *)
(* the variables.                                                       *)

St ==
    [slots |-> slots, deck |-> deck, pc |-> pc, turn |-> turn, k |-> k,
     simulate |-> simulate, copy |-> copy, removed_count |-> removed_count,
     free_slots |-> free_slots, i |-> i, empty_slot |-> empty_slot,
     max_removed_count |-> max_removed_count, slot_nr |-> slot_nr,
     to_check |-> to_check, c |-> c, removed |-> removed, moved |-> moved,
     before |-> before, scans |-> scans, sims |-> sims,
     card1 |-> card1, card2 |-> card2, is_lower |-> is_lower]

Start(t) ==
    /\ slots = t.slots /\ deck = t.deck /\ pc = t.pc /\ turn = t.turn
    /\ k = t.k /\ simulate = t.simulate /\ copy = t.copy
    /\ removed_count = t.removed_count /\ free_slots = t.free_slots
    /\ i = t.i /\ empty_slot = t.empty_slot
    /\ max_removed_count = t.max_removed_count /\ slot_nr = t.slot_nr
    /\ to_check = t.to_check /\ c = t.c /\ removed = t.removed
    /\ moved = t.moved /\ before = t.before /\ scans = t.scans
    /\ sims = t.sims /\ card1 = t.card1 /\ card2 = t.card2
    /\ is_lower = t.is_lower

Become(t) ==
    /\ slots' = t.slots /\ deck' = t.deck /\ pc' = t.pc /\ turn' = t.turn
    /\ k' = t.k /\ simulate' = t.simulate /\ copy' = t.copy
    /\ removed_count' = t.removed_count /\ free_slots' = t.free_slots
    /\ i' = t.i /\ empty_slot' = t.empty_slot
    /\ max_removed_count' = t.max_removed_count /\ slot_nr' = t.slot_nr
    /\ to_check' = t.to_check /\ c' = t.c /\ removed' = t.removed
    /\ moved' = t.moved /\ before' = t.before /\ scans' = t.scans
    /\ sims' = t.sims /\ card1' = t.card1 /\ card2' = t.card2
    /\ is_lower' = t.is_lower

(* Game.__init__ and Board.__init__: empty slots, a shuffled deck, no turn *)
(* played.  removed counts the cards popped by the non-simulated removal   *)
(* passes of the round; moved tells whether the current turn has moved a   *)
(* card.  before holds the live slots and the deck as they were when the   *)
(* non-simulated removal pass or the _check_best_to_move in progress was   *)
(* called; scans and sims count the runs of the outer loop body and the    *)
(* simulated removal passes of the current _check_best_to_move.            *)
NewGame(cards) ==
    [slots |-> EmptyBoard, deck |-> cards, pc |-> "round", turn |-> 0, k |-> 0,
     simulate |-> FALSE, copy |-> EmptyBoard, removed_count |-> 0,
     free_slots |-> <<>>, i |-> 0, empty_slot |-> <<>>,
     max_removed_count |-> None, slot_nr |-> None, to_check |-> FALSE,
     c |-> None, removed |-> 0, moved |-> FALSE,
     before |-> [slots |-> EmptyBoard, deck |-> cards], scans |-> 0, sims |-> 0,
     card1 |-> NotACard, card2 |-> NotACard, is_lower |-> FALSE]

-----------------------------------------------------------------------------
(* Game.play_round *)

(* A loop that runs once more than there are cards for. *)
play_round_one_more(s) ==
    IF s.pc = "round" /\ s.turn <= cards_per_suit
    THEN {[s EXCEPT !.turn = @ + 1, !.k = 0, !.moved = FALSE, !.pc = "draw"]}
    ELSE {}

(* One iteration of the for loop: the call of play_turn. *)
play_round(s) ==
    IF s.pc = "round" /\ s.turn < cards_per_suit
    THEN {[s EXCEPT !.turn = @ + 1, !.k = 0, !.moved = FALSE, !.pc = "draw"]}
    ELSE {}

(* After the loop: c = cards_count(), returned. *)
play_round_return(s) ==
    IF s.pc = "round" /\ ~(s.turn < cards_per_suit)
    THEN {[s EXCEPT !.c = cards_count(s.slots), !.pc = "done"]}
    ELSE {}

-----------------------------------------------------------------------------
(* Board.play_turn *)

(* A call that keeps the count of the pass before. *)
call_remove_cards_keep_count(s, sim) ==
    [s EXCEPT !.simulate = sim,
              !.copy = IF sim THEN s.slots ELSE EmptyBoard,
              !.before = IF sim THEN @ ELSE [slots |-> s.slots, deck |-> s.deck],
              !.sims = IF sim THEN @ + 1 ELSE @,
              !.pc = "remove"]

(* The call _remove_cards(simulate): the local name slots is bound to a *)
(* deep copy of the live slots or to the live slots themselves.         *)
call_remove_cards(s, sim) ==
    [s EXCEPT !.simulate = sim,
              !.copy = IF sim THEN s.slots ELSE EmptyBoard,
              !.removed_count = 0,
              !.before = IF sim THEN @ ELSE [slots |-> s.slots, deck |-> s.deck],
              !.sims = IF sim THEN @ + 1 ELSE @,
              !.pc = "remove"]

(* A draw that hands out a non-card when the deck is empty. *)
draw_unchecked(s) ==
    IF s.pc # "draw" THEN {}
    ELSE LET t == IF Len(s.deck) = 0
                  THEN [s EXCEPT !.slots[s.k] = Append(@, NotACard)]
                  ELSE [s EXCEPT !.slots[s.k] = Append(@, Top(s.deck)),
                                 !.deck = Pop(@)]
         IN  IF s.k + 1 < NumSlots
             THEN {[t EXCEPT !.k = @ + 1]}
             ELSE {call_remove_cards(t, FALSE)}

(* A draw of a card picked at random from the deck. *)
draw_any(s) ==
    IF s.pc # "draw" THEN {}
    ELSE IF Len(s.deck) = 0 THEN {[s EXCEPT !.pc = "error"]}
    ELSE {LET t == [s EXCEPT !.slots[s.k] = Append(@, s.deck[n]),
                             !.deck = Pop(Swap(@, n, Len(@)))]
          IN  IF s.k + 1 < NumSlots
              THEN [t EXCEPT !.k = @ + 1]
              ELSE call_remove_cards(t, FALSE) : n \in 1..Len(s.deck)}

(* Deck.draw on the next slot of the dealing loop; pop on an empty list *)
(* raises.  After the fourth card the stabilization loop is entered.    *)
draw(s) ==
    IF s.pc # "draw" THEN {}
    ELSE IF Len(s.deck) = 0 THEN {[s EXCEPT !.pc = "error"]}
    ELSE LET t == [s EXCEPT !.slots[s.k] = Append(@, Top(s.deck)),
                            !.deck = Pop(@)]
         IN  IF s.k + 1 < NumSlots
             THEN {[t EXCEPT !.k = @ + 1]}
             ELSE {call_remove_cards(t, FALSE)}

(* The list the local name slots of _remove_cards refers to. *)
Local(s) == IF s.simulate THEN s.copy ELSE s.slots

(* A shallow copy: the copied board shares its slots with the live one. *)
PopShared(s, i1) ==
    IF s.simulate
    THEN [s EXCEPT !.copy[i1] = Pop(@), !.slots[i1] = Pop(@)]
    ELSE [s EXCEPT !.slots[i1] = Pop(@), !.removed = @ + 1]

(* slots[i1].pop() on that list. *)
PopLocal(s, i1) ==
    IF s.simulate
    THEN [s EXCEPT !.copy[i1] = Pop(@)]
    ELSE [s EXCEPT !.slots[i1] = Pop(@), !.removed = @ + 1]

(* One iteration of the while loop of _remove_cards that breaks at the *)
(* first eligible pair.                                                *)
remove_cards_pop(s) ==
    IF s.pc = "remove" /\ FirstEligible(Local(s)) # None
    THEN {[PopLocal(s, PairAt(FirstEligible(Local(s)))[1])
              EXCEPT !.removed_count = @ + 1]}
    ELSE {}

(* The iteration that finds no eligible pair: the pass returns its count, *)
(* to play_turn or to _check_best_to_move.                                *)
remove_cards_return(s) ==
    IF s.pc = "remove" /\ FirstEligible(Local(s)) = None
    THEN {[s EXCEPT !.copy = EmptyBoard,
                    !.pc = IF s.simulate THEN "restore" ELSE "free"]}
    ELSE {}

FreeSlots(b) == {n \in SlotIx : Len(b[n]) = 0}

RECURSIVE Ascending(_)
Ascending(S) ==
    IF S = {} THEN <<>>
    ELSE LET m == CHOOSE x \in S : \A y \in S : x <= y
         IN  <<m>> \o Ascending(S \ {m})

(* A heuristic whose best count starts at 0 instead of -1. *)
find_free_slots_from_zero(s) ==
    IF s.pc # "free" THEN {}
    ELSE LET fs == Ascending(FreeSlots(s.slots))
         IN  IF Len(fs) > 0
             THEN {[s EXCEPT !.free_slots = fs,
                             !.max_removed_count = 0,
                             !.slot_nr = None,
                             !.to_check = TRUE,
                             !.before = [slots |-> s.slots, deck |-> s.deck],
                             !.scans = 0,
                             !.sims = 0,
                             !.pc = "scan"]}
             ELSE {[s EXCEPT !.free_slots = fs, !.pc = "round"]}

(* free_slots and the test on it: the heuristic is called, or the turn *)
(* is over.                                                            *)
find_free_slots(s) ==
    IF s.pc # "free" THEN {}
    ELSE LET fs == Ascending(FreeSlots(s.slots))
         IN  IF Len(fs) > 0
             THEN {[s EXCEPT !.free_slots = fs,
                             !.max_removed_count = None,
                             !.slot_nr = None,
                             !.to_check = TRUE,
                             !.before = [slots |-> s.slots, deck |-> s.deck],
                             !.scans = 0,
                             !.sims = 0,
                             !.pc = "scan"]}
             ELSE {[s EXCEPT !.free_slots = fs, !.pc = "round"]}

-----------------------------------------------------------------------------
(* Board._check_best_to_move *)

(* The test of the outer while loop: one more scan, or the return. *)
check_best_while(s) ==
    IF s.pc # "scan" THEN {}
    ELSE IF s.to_check
         THEN {[s EXCEPT !.to_check = FALSE, !.i = 0, !.scans = @ + 1,
                         !.pc = "check"]}
         ELSE {[s EXCEPT !.pc = "move"]}

(* A scan that also takes the only card of a slot. *)
check_best_slot_single(s) ==
    IF s.pc # "check" THEN {}
    ELSE IF s.i = NumSlots THEN {[s EXCEPT !.pc = "scan"]}
    ELSE IF ~(Len(s.slots[s.i]) > 0) THEN {[s EXCEPT !.i = @ + 1]}
    ELSE {call_remove_cards(
            [s EXCEPT !.empty_slot = <<Top(s.slots[s.i])>>,
                      !.slots[s.i] = Pop(@)], TRUE)}

(* One slot of the for loop: skipped, or its top card taken off and the *)
(* simulated removal pass called.                                       *)
check_best_slot(s) ==
    IF s.pc # "check" THEN {}
    ELSE IF s.i = NumSlots THEN {[s EXCEPT !.pc = "scan"]}
    ELSE IF ~(Len(s.slots[s.i]) > 1) THEN {[s EXCEPT !.i = @ + 1]}
    ELSE {call_remove_cards(
            [s EXCEPT !.empty_slot = <<Top(s.slots[s.i])>>,
                      !.slots[s.i] = Pop(@)], TRUE)}

(* A comparison with >=: the last of the best slots wins a tie. *)
check_best_restore_last(s) ==
    IF s.pc # "restore" THEN {}
    ELSE LET t == [s EXCEPT !.slots[s.i] = Append(@, Top(s.empty_slot)),
                            !.empty_slot = Pop(@),
                            !.simulate = FALSE,
                            !.i = @ + 1,
                            !.pc = "check"]
         IN  IF s.removed_count >= s.max_removed_count
             THEN {[t EXCEPT !.max_removed_count = s.removed_count,
                             !.slot_nr = s.i]}
             ELSE {t}

(* A scan that forgets to put the card back. *)
check_best_restore_drop(s) ==
    IF s.pc # "restore" THEN {}
    ELSE LET t == [s EXCEPT !.empty_slot = Pop(@),
                            !.simulate = FALSE,
                            !.i = @ + 1,
                            !.pc = "check"]
         IN  IF s.removed_count > s.max_removed_count
             THEN {[t EXCEPT !.max_removed_count = s.removed_count,
                             !.slot_nr = s.i]}
             ELSE {t}

(* A search that scans again whenever a scan has found a better slot. *)
check_best_restore_retry(s) ==
    IF s.pc # "restore" THEN {}
    ELSE LET t == [s EXCEPT !.slots[s.i] = Append(@, Top(s.empty_slot)),
                            !.empty_slot = Pop(@),
                            !.simulate = FALSE,
                            !.i = @ + 1,
                            !.pc = "check"]
         IN  IF s.removed_count > s.max_removed_count
             THEN {[t EXCEPT !.max_removed_count = s.removed_count,
                             !.slot_nr = s.i,
                             !.to_check = TRUE]}
             ELSE {t}

(* The card is put back and the count compared with the best so far. *)
check_best_restore(s) ==
    IF s.pc # "restore" THEN {}
    ELSE LET t == [s EXCEPT !.slots[s.i] = Append(@, Top(s.empty_slot)),
                            !.empty_slot = Pop(@),
                            !.simulate = FALSE,
                            !.i = @ + 1,
                            !.pc = "check"]
         IN  IF s.removed_count > s.max_removed_count
             THEN {[t EXCEPT !.max_removed_count = s.removed_count,
                             !.slot_nr = s.i]}
             ELSE {t}

(* A move that copies the top card and leaves it on its slot. *)
move_card_copy(s) ==
    IF s.pc # "move" THEN {}
    ELSE IF s.slot_nr # None /\ Len(s.slots[s.slot_nr]) # 0
         THEN {call_remove_cards(
                 [s EXCEPT !.slots[s.free_slots[1]] = Append(@, Top(s.slots[s.slot_nr])),
                           !.moved = TRUE], FALSE)}
         ELSE {[s EXCEPT !.pc = "round"]}

(* A move onto the last free slot instead of the first. *)
move_card_last_free(s) ==
    IF s.pc # "move" THEN {}
    ELSE IF s.slot_nr # None /\ Len(s.slots[s.slot_nr]) # 0
         THEN {call_remove_cards(
                 [s EXCEPT !.slots = MoveTop(@, s.slot_nr, s.free_slots[Len(s.free_slots)]),
                           !.moved = TRUE], FALSE)}
         ELSE {[s EXCEPT !.pc = "round"]}

(* Back in play_turn: a returned slot that is truthy gives its top card to *)
(* the first free slot and the loop runs again; otherwise the turn is over. *)
move_card(s) ==
    IF s.pc # "move" THEN {}
    ELSE IF s.slot_nr # None /\ Len(s.slots[s.slot_nr]) # 0
         THEN {call_remove_cards(
                 [s EXCEPT !.slots = MoveTop(@, s.slot_nr, s.free_slots[1]),
                           !.moved = TRUE], FALSE)}
         ELSE {[s EXCEPT !.pc = "round"]}

-----------------------------------------------------------------------------
(* The game: every deck order of the seeds, then Game.play_round. *)

Init == \E seed \in 1..NumSeeds : Start(NewGame(Shuffle(seed)))

PlayRound == \E t \in play_round(St) : Become(t)

PlayRoundReturn == \E t \in play_round_return(St) : Become(t)

Draw == \E t \in draw(St) : Become(t)

RemoveCardsPop == \E t \in remove_cards_pop(St) : Become(t)

RemoveCardsReturn == \E t \in remove_cards_return(St) : Become(t)

FindFreeSlots == \E t \in find_free_slots(St) : Become(t)

CheckBestWhile == \E t \in check_best_while(St) : Become(t)

CheckBestSlot == \E t \in check_best_slot(St) : Become(t)

CheckBestRestore == \E t \in check_best_restore(St) : Become(t)

MoveCard == \E t \in move_card(St) : Become(t)

Next ==
    \/ PlayRound
    \/ PlayRoundReturn
    \/ Draw
    \/ RemoveCardsPop
    \/ RemoveCardsReturn
    \/ FindFreeSlots
    \/ CheckBestWhile
    \/ CheckBestSlot
    \/ CheckBestRestore
    \/ MoveCard

Spec == Init /\ [][Next]_vars

(* The program runs without pause until play_round returns. *)
FairSpec == Spec /\ WF_vars(Next)

-----------------------------------------------------------------------------
(* Board.play_turn called once more on the board of a finished round. *)

MaxTurns == 10

play_turn_again(s) ==
    IF s.pc \in {"done", "error"} /\ s.turn < MaxTurns
    THEN {[s EXCEPT !.turn = @ + 1, !.k = 0, !.moved = FALSE, !.pc = "draw"]}
    ELSE {}

PlayTurnAgain == \E t \in play_turn_again(St) : Become(t)

ExtraNext == Next \/ PlayTurnAgain

ExtraSpec == Init /\ [][ExtraNext]_vars

-----------------------------------------------------------------------------
(* Card.lower applied to every card and every other value. *)

compare(s) ==
    IF s.pc = "lower"
    THEN {[s EXCEPT !.is_lower = lower(s.card1, s.card2), !.pc = "compared"]}
    ELSE {}

Compare == \E t \in compare(St) : Become(t)

LowerInit ==
    \E a \in Cards, b \in Cards \cup {NotACard} :
        Start([NewGame(NewDeck) EXCEPT !.pc = "lower", !.card1 = a, !.card2 = b])

LowerNext == Compare

LowerSpec == LowerInit /\ [][LowerNext]_vars

-----------------------------------------------------------------------------
(* Properties *)

SumOfSlotSizes == Len(slots[0]) + Len(slots[1]) + Len(slots[2]) + Len(slots[3])

RemovalFixedPoint ==
    pc = "free" =>
        \A i1 \in SlotIx, i2 \in SlotIx :
            (i1 # i2 /\ Len(slots[i1]) > 0 /\ Len(slots[i2]) > 0) =>
                /\ ~lower(Top(slots[i1]), Top(slots[i2]))
                /\ Top(slots[i1]).suit # Top(slots[i2]).suit

RemovalFixedPointWitness ==
    /\ pc = "free" /\ removed_count > 1
    /\ \E n \in SlotIx : Len(slots[n]) > 1

(* C3: no step of a simulated removal pass, pop or return, changes the *)
(* live slots or the deck.                                             *)
SimulationPurity ==
    [][(pc = "remove" /\ simulate) => (slots' = slots /\ deck' = deck)]_vars

SimulationPurityWitness ==
    pc = "restore" /\ simulate /\ removed_count > 1

(* C4: every turn that starts dealing is finished, and every removal *)
(* pass that is running returns.                                     *)
PlayTurnTerminates ==
    /\ \A n \in 1..cards_per_suit :
          (turn = n /\ pc = "draw") ~> (turn = n /\ pc = "round")
    /\ (pc = "remove") ~> (pc \in {"free", "restore"})

PlayTurnTerminatesWitness ==
    pc = "round" /\ turn > 0 /\ moved /\ removed > 0

(* C5: a draw is only made from a deck that holds a card; turn k deals *)
(* exactly 4 cards and leaves 36 - 4k in the deck, which is empty      *)
(* exactly when the deal of the ninth turn is complete.                *)
DeckNeverDrawnEmpty ==
    /\ pc # "error"
    /\ pc = "draw" => (Len(deck) > 0 /\ Len(deck) = 36 - 4 * (turn - 1) - k)
    /\ pc # "draw" => Len(deck) = 36 - 4 * turn
    /\ Len(deck) = 0 <=> (turn = 9 /\ pc # "draw")

DeckNeverDrawnEmptyWitness ==
    pc = "remove" /\ turn = 9 /\ Len(deck) = 0 /\ removed_count = 0 /\ ~simulate

(* C6: a draw on an empty deck ends in the error and returns no card; it *)
(* is the first draw of the turn, so the turn attempted on an exhausted  *)
(* deck leaves the four slots and the deck as they were.                 *)
DrawOnEmptyDeckFails ==
    [][/\ (pc = "draw" /\ Len(deck) = 0) =>
            (k = 0 /\ pc' = "error" /\ slots' = slots /\ deck' = deck)
       /\ (pc \in {"done", "error"}) => (slots' = slots /\ deck' = deck)]_vars

DrawOnEmptyDeckFailsWitness ==
    pc = "error" /\ turn = 10 /\ Len(deck) = 0 /\ SumOfSlotSizes = c

(* C7: once the deck is shuffled every state of the game has at most one *)
(* successor, so games with the same deck go through the same states and *)
(* return the same count.                                                *)
Successors(s) ==
    play_round(s) \cup play_round_return(s) \cup draw(s)
        \cup remove_cards_pop(s) \cup remove_cards_return(s)
        \cup find_free_slots(s) \cup check_best_while(s)
        \cup check_best_slot(s) \cup check_best_restore(s) \cup move_card(s)

Deterministic ==
    /\ Cardinality(Successors(St)) <= 1
    /\ pc # "done" => Cardinality(Successors(St)) = 1

DeterministicWitness ==
    pc = "done" /\ turn = 9 /\ c < 36

(* C8: play_round returns after exactly 9 turns, and the value returned *)
(* is the sum of the slot sizes, lies in 0..36 and is 36 less the cards *)
(* removed in the round.                                                *)
PlayRoundResult ==
    pc = "done" =>
        /\ turn = 9
        /\ c = SumOfSlotSizes
        /\ c \in 0..36
        /\ c = 36 - removed

PlayRoundResultWitness ==
    pc = "done" /\ removed > 0 /\ c > 0

(* C9 as stated: the removal pass after the move of the returned slot's  *)
(* top card removes at least as many cards as the pass after the move of *)
(* the top card of any other slot that holds more than one card.         *)
RemovedAfterMove(b, src, dst) == RemovePass(MoveTop(b, src, dst), 0).removed_count

BestMoveRemovesMost ==
    (pc = "move" /\ slot_nr # None) =>
        \A n \in {m \in SlotIx : Len(slots[m]) > 1} :
            RemovedAfterMove(slots, slot_nr, free_slots[1])
                >= RemovedAfterMove(slots, n, free_slots[1])

(* C10: on cards, lower is true exactly for a card of the same suit and *)
(* strictly smaller rank: false across suits, false on the card itself. *)
LowerIsSuitScoped ==
    (pc = "compared" /\ card2 \in Cards) =>
        /\ is_lower <=> (card1.suit = card2.suit /\ card1.value < card2.value)
        /\ card1.suit # card2.suit => ~is_lower
        /\ card1 = card2 => ~is_lower

LowerIsSuitScopedWitness ==
    /\ pc = "compared" /\ is_lower
    /\ card1.suit = card2.suit /\ card1.value + 1 = card2.value

(* C11: _check_best_to_move returns no slot exactly when no slot holds *)
(* more than one card; otherwise the slot returned holds more than one *)
(* card, its count on the board without its top card is the greatest   *)
(* among such slots, and it is the lowest-index slot with that count.  *)
Candidates(b) == {n \in SlotIx : Len(b[n]) > 1}

SimulatedCount(b, n) == RemovePass([b EXCEPT ![n] = Pop(@)], 0).removed_count

BestMoveReturn ==
    pc = "move" =>
        /\ slot_nr = None <=> Candidates(slots) = {}
        /\ slot_nr # None =>
              /\ slot_nr \in Candidates(slots)
              /\ Len(slots[slot_nr]) # 0
              /\ max_removed_count = SimulatedCount(slots, slot_nr)
              /\ \A n \in Candidates(slots) :
                    /\ SimulatedCount(slots, n) <= max_removed_count
                    /\ SimulatedCount(slots, n) = max_removed_count => slot_nr <= n

BestMoveReturnWitness ==
    /\ pc = "move" /\ slot_nr # None /\ max_removed_count = 0
    /\ \E n \in Candidates(slots) : n > slot_nr /\ SimulatedCount(slots, n) = 0

(* C12: when _check_best_to_move returns, and before each candidate is *)
(* examined, the slots and the deck are what they were at the call.    *)
BestMoveLeavesBoard ==
    pc \in {"scan", "check", "move"} =>
        (slots = before.slots /\ deck = before.deck)

BestMoveLeavesBoardWitness ==
    /\ pc = "move" /\ sims > 1 /\ max_removed_count > 0
    /\ slots = before.slots

(* C13: every pop of a removal pass takes the top of slot i1 of the first *)
(* pair of the contract order whose slots are both non-empty and whose    *)
(* tops are of one suit, the top of i1 the smaller; the pass returns only *)
(* when no pair is eligible.                                              *)
ContractOrder ==
    << <<0, 1>>, <<0, 2>>, <<0, 3>>, <<1, 0>>, <<1, 2>>, <<1, 3>>,
       <<2, 0>>, <<2, 1>>, <<2, 3>>, <<3, 0>>, <<3, 1>>, <<3, 2>> >>

EligibleAt(b, j) ==
    LET i1 == ContractOrder[j][1]
        i2 == ContractOrder[j][2]
    IN  /\ b[i1] # <<>>
        /\ b[i2] # <<>>
        /\ Top(b[i1]).suit = Top(b[i2]).suit
        /\ Top(b[i1]).value < Top(b[i2]).value

FirstInContract(b) ==
    IF \E j \in 1..Len(ContractOrder) : EligibleAt(b, j)
    THEN CHOOSE j \in 1..Len(ContractOrder) :
            EligibleAt(b, j) /\ \A h \in 1..(j - 1) : ~EligibleAt(b, h)
    ELSE 0

FirstPairResolved ==
    [][pc = "remove" =>
        LET b == IF simulate THEN copy ELSE slots
            j == FirstInContract(b)
        IN  IF j = 0
            THEN pc' # "remove" /\ slots' = slots
            ELSE /\ pc' = "remove"
                 /\ removed_count' = removed_count + 1
                 /\ (IF simulate THEN copy' ELSE slots')
                        = [b EXCEPT ![ContractOrder[j][1]] = Pop(@)]]_vars

FirstPairResolvedWitness ==
    /\ pc = "remove" /\ removed_count > 0
    /\ FirstInContract(Local(St)) > 1
    /\ Cardinality({j \in 1..Len(ContractOrder) : EligibleAt(Local(St), j)}) > 2

(* The boards a removal pass can end on when, at every step, any *)
(* eligible pair may be the one resolved.                        *)
EligibleSlots(b) ==
    {i1 \in SlotIx : \E i2 \in SlotIx \ {i1} : Eligible(b, i1, i2)}

RECURSIVE Survivors(_)
Survivors(b) ==
    IF EligibleSlots(b) = {} THEN {b}
    ELSE UNION {Survivors([b EXCEPT ![n] = Pop(@)]) : n \in EligibleSlots(b)}

(* C14 as stated, for the boards of a round: a removal pass meets a board *)
(* on which two orders of resolving the eligible pairs leave different    *)
(* cards.                                                                 *)
OrderIsObservable ==
    <>(pc = "remove" /\ Cardinality(Survivors(Local(St))) > 1)

(* C14, amended: on every board a removal pass starts from, whatever the *)
(* order in which eligible pairs are resolved, the cards left at the     *)
(* fixed point are those the pass of the code leaves.                    *)
OrderIsNotObservable ==
    /\ (pc = "remove" /\ removed_count = 0) =>
            Survivors(Local(St)) = {RemovePass(Local(St), 0).slots}
    /\ pc = "free" => Survivors(before.slots) = {slots}

OrderIsNotObservableWitness ==
    /\ pc = "free" /\ removed_count > 2
    /\ Cardinality(EligibleSlots(before.slots)) > 1

(* C15: a move takes the top card off the returned slot, which keeps at *)
(* least one card, and makes it the only card of the lowest-index empty *)
(* slot; the other slots, the deck and the number of cards stay, one    *)
(* slot fewer is empty, and a non-simulated removal pass is started.    *)
MoveChangesTwoSlots ==
    [][(pc = "move" /\ slot_nr # None) =>
        LET dst == CHOOSE n \in SlotIx :
                      slots[n] = <<>> /\ \A m \in 0..(n - 1) : slots[m] # <<>>
        IN  /\ slots'[slot_nr] = SubSeq(slots[slot_nr], 1, Len(slots[slot_nr]) - 1)
            /\ Len(slots'[slot_nr]) >= 1
            /\ slots'[dst] = <<slots[slot_nr][Len(slots[slot_nr])]>>
            /\ \A n \in SlotIx \ {slot_nr, dst} : slots'[n] = slots[n]
            /\ Cardinality({n \in SlotIx : slots'[n] # slots[n]}) = 2
            /\ deck' = deck
            /\ SumOfSlotSizes' = SumOfSlotSizes
            /\ Cardinality({n \in SlotIx : slots'[n] = <<>>})
                   = Cardinality({n \in SlotIx : slots[n] = <<>>}) - 1
            /\ pc' = "remove" /\ ~simulate' /\ removed_count' = 0]_vars

MoveChangesTwoSlotsWitness ==
    /\ pc = "remove" /\ ~simulate /\ moved /\ removed_count = 0
    /\ Len(free_slots) > 1

(* C16: a call of _check_best_to_move runs the body of its outer loop *)
(* once: one scan of the four slots, with one simulated removal pass  *)
(* for each slot that holds more than one card and none for the rest. *)
SingleScan ==
    /\ pc \in {"scan", "check", "restore", "move"} => scans <= 1
    /\ sims <= NumSlots
    /\ pc = "check" => (scans = 1 /\ sims <= i)
    /\ pc = "move" =>
          /\ scans = 1
          /\ sims = Cardinality({n \in SlotIx : Len(slots[n]) > 1})

SingleScanWitness ==
    pc = "move" /\ scans = 1 /\ sims > 2 /\ max_removed_count > 1

(* C17: the count a non-simulated removal pass returns is the number of  *)
(* cards the slots have lost, and every slot is the bottom part of what   *)
(* it was; when the only eligible pair is a 6 and a 9 of one suit and the *)
(* tops left after the 6 is popped give no eligible pair, the count is 1  *)
(* and only the 6 is gone.                                                *)
SixAndNine(b, j) ==
    /\ EligibleAt(b, j)
    /\ Top(b[ContractOrder[j][1]]).value = 6
    /\ Top(b[ContractOrder[j][2]]).value = 9
    /\ \A h \in 1..Len(ContractOrder) : EligibleAt(b, h) => h = j
    /\ FirstInContract([b EXCEPT ![ContractOrder[j][1]] = Pop(@)]) = 0

CountIsCardsRemoved ==
    pc = "free" =>
        /\ removed_count
              = Len(before.slots[0]) + Len(before.slots[1])
                  + Len(before.slots[2]) + Len(before.slots[3]) - SumOfSlotSizes
        /\ \A n \in SlotIx :
              /\ Len(slots[n]) <= Len(before.slots[n])
              /\ slots[n] = SubSeq(before.slots[n], 1, Len(slots[n]))
        /\ \A j \in 1..Len(ContractOrder) :
              SixAndNine(before.slots, j) =>
                  /\ removed_count = 1
                  /\ slots = [before.slots EXCEPT ![ContractOrder[j][1]] = Pop(@)]

CountIsCardsRemovedWitness ==
    /\ pc = "free" /\ removed_count = 1
    /\ \E j \in 1..Len(ContractOrder) : SixAndNine(before.slots, j)

(* C18: when a turn has finished no top card is lower than another top *)
(* card, and either no slot is empty or no slot holds two cards.       *)
TurnEndsSettled ==
    (pc \in {"round", "done"} /\ turn > 0) =>
        /\ \A j \in 1..Len(ContractOrder) : ~EligibleAt(slots, j)
        /\ \/ \A n \in SlotIx : slots[n] # <<>>
           \/ \A n \in SlotIx : Len(slots[n]) <= 1

TurnEndsSettledWitness ==
    /\ pc = "round" /\ turn > 0 /\ moved /\ max_removed_count = 0
    /\ \A n \in SlotIx : slots[n] # <<>>
    /\ \E n \in SlotIx : Len(slots[n]) > 1

Holds(seq, card) == \E n \in 1..Len(seq) : seq[n] = card

OnBoard(b, card) == \E n \in SlotIx : Holds(b[n], card)

Highest(suit) == [suit |-> suit, value |-> 14]

====
